---- MODULE Spec2Model ----
(***************************************************************************)
(* A model of the scores calculator (FAIR and CARE scoring of catalogued   *)
(* resources described in RDF).  A graph is a set of triples <<s, p, o>>;  *)
(* subjects and objects are RDF terms (records), predicates are prefixed   *)
(* names.  The state machine follows fair.main / care.main: load the       *)
(* input, forward chain, validate if asked, score every catalogued        *)
(* resource, normalise, generate the output.  Spec is main with its        *)
(* default arguments on every graph the parser can build from the input    *)
(* families; MainSpec is main on a Graph object with any arguments;        *)
(* BatchSpec is process_directory on one file with a context directory.    *)
(***************************************************************************)
EXTENDS Integers, FiniteSets, Sequences, TLC

VARIABLES
    calc,      \* which calculator's main runs: "fair" or "care"
    pc,        \* position in main
    g0,        \* the input graph as loaded (before any forward chaining)
    g,         \* the input graph (metadata), a set of triples
    chainRuns, \* how many times _forward_chain_dcat has run on g
    todo,      \* resources still to be scored by calculate_*_per_resource
    cur,       \* CARE: the resource whose dimensions are being computed
    groups,    \* result graph: the Score containers (ObservationGroups)
    obs,       \* result graph: the Observations
    nextId,    \* the next fresh blank node
    fetched,   \* the outcomes of the fetches the last scoring step made
    err,       \* the exception that ended main, or "none"
    validate,  \* main's argument validate
    conforms,  \* what the validator said: "unchecked", "conforms", "violates"
    output     \* main's argument output

vars == <<calc, pc, g0, g, chainRuns, todo, cur, groups, obs, nextId, fetched, err,
          validate, conforms, output>>

-----------------------------------------------------------------------------
(* Bounds of the model. *)

\* _forward_chain_dcat may be applied again to a graph it already expanded
\* (main accepts a Graph object that a caller has chained before).
MaxChainRuns == 2

\* How many scoring passes over the same metadata are unioned into one
\* result graph.
MaxPasses == 2

-----------------------------------------------------------------------------
(* RDF terms. *)

URIRef(s) == [kind |-> "URIRef", lex |-> s, dt |-> ""]

BNode(s) == [kind |-> "BNode", lex |-> s, dt |-> ""]

Literal(s, d) == [kind |-> "Literal", lex |-> s, dt |-> d]

\* str(term)
Str(t) == t.lex

\* No resource: the value of a Python variable holding None.
None == [kind |-> "None", lex |-> "None", dt |-> ""]

\* bool(term), as used by any(...) and by "if not source_term": a URIRef or
\* BNode is a str (false when empty); a Literal is bool(value), i.e. the
\* lexical form for strings, the number for numerics, the flag for booleans.
Truthy(t) ==
    IF t.kind = "Literal" /\ t.dt = "xsd:boolean" THEN t.lex = "true"
    ELSE IF t.kind = "Literal" /\ t.dt = "xsd:integer" THEN t.lex # "0"
    ELSE t.lex # ""

\* The text of the URIs and labels of the model, cut into the pieces the
\* substring tests of the code look for.
Pieces(s) ==
    CASE s = "https://doi.org/10.1/ds1" -> <<"https://", "doi.org", "/10.1/ds1">>
      [] s = "https://example.com/ds2" -> <<"https://", "example.com", "/ds2">>
      [] s = "Indigenous Data Governance Framework" ->
             <<"Indigenous", " Data ", "Governance", " Framework">>
      [] OTHER -> <<s>>

\* str.lower() on one piece of text
Lower(w) ==
    CASE w = "Indigenous" -> "indigenous"
      [] w = "Governance" -> "governance"
      [] w = " Data " -> " data "
      [] w = " Framework" -> " framework"
      [] OTHER -> w

\* "needle in text" for a needle that is one of the pieces
Contains(text, needle) == \E i \in 1..Len(text) : text[i] = needle

LowerText(text) == [i \in 1..Len(text) |-> Lower(text[i])]

-----------------------------------------------------------------------------
(* Vocabulary. *)

DAR(x) == URIRef("https://linked.data.gov.au/def/data-access-rights/" \o x)

LC_IN(x) == URIRef("http://data.idnau.org/pid/vocab/lc-in/" \o x)

ORG_INDIG(x) == URIRef("https://data.idnau.org/pid/vocab/org-indigeneity/" \o x)

IND_INDIG(x) == URIRef("https://data.idnau.org/pid/vocab/indigeneity/" \o x)

DCAT_Resource == URIRef("dcat:Resource")

DCAT_Dataset == URIRef("dcat:Dataset")

\* the predicates of the model that are terms of the PROV namespace
PROV == {"prov:qualifiedAttribution", "prov:agent", "prov:hadRole",
         "prov:entity", "prov:wasDerivedFrom"}

properties_for_mediatypes_formats == {"dcterms:format", "dcat:mediaType"}

\* machine_readable_formats_to_mime_types.keys()
machine_readable_extensions ==
    {"json", "xml", "csv", "tsv", "yaml", "yml", "rdf", "ttl", "jsonld",
     "geojson", "gml", "kml", "xlsx", "xls", "ods"}

\* machine_readable_formats_to_mime_types.values()
machine_readable_mime_types ==
    {"application/json", "application/xml", "text/csv",
     "text/tab-separated-values", "application/x-yaml", "application/rdf+xml",
     "text/turtle", "application/ld+json", "application/geo+json",
     "application/gml+xml", "application/vnd.google-earth.kml+xml",
     "application/vnd.openxmlformats-officedocument.spreadsheetml.sheet",
     "application/vnd.ms-excel",
     "application/vnd.oasis.opendocument.spreadsheet"}

properties_expected_to_have_objects_with_uris ==
    {"dcterms:format", "dcterms:type", "dcterms:license", "dcterms:publisher",
     "dcterms:creator", "dcterms:contributor", "dcterms:accessRights",
     "prov:agent", "prov:hadRole", "dcat:hadRole", "dcat:theme", "rdfs:member"}

data_usage_license_properties == {"dcterms:license"}

additional_provenance_properties == {"dcterms:source"}

\* reference.py of this revision does not define searchable_properties,
\* which functions.py imports: the descriptive title stands for the list.
searchable_properties == {"dcterms:title"}

pid_indicators ==
    <<"doi:", "doi.org", "ark:", "purl.org", "linked.data.gov.au",
      "handle.net", "w3id.org">>

-----------------------------------------------------------------------------
(* Graph queries (rdflib.Graph). *)

\* g.objects(s, p)
Objects(gr, s, p) == {t[3] : t \in {u \in gr : u[1] = s /\ u[2] = p}}

\* g.subjects(p, o)
Subjects(gr, p, o) == {t[1] : t \in {u \in gr : u[2] = p /\ u[3] = o}}

\* g.triples_choices((s, ps, None)): the triples of s with a predicate in ps
TriplesChoices(gr, s, ps) == {t \in gr : t[1] = s /\ t[2] \in ps}

\* set(g.predicates(subject=None, object=None))
AllPredicates(gr) == {t[2] : t \in gr}

\* any(g.objects(s, p)): some object is truthy
AnyObject(gr, s, p) == \E o \in Objects(gr, s, p) : Truthy(o)

-----------------------------------------------------------------------------
(* The inputs of the model: three small families of metadata graphs. *)

R1 == URIRef("https://doi.org/10.1/ds1")

R2 == URIRef("https://example.com/ds2")

CAT1 == URIRef("https://example.com/catalogue")

\* FAIR: a dataset with a persistent identifier and every property the
\* FAIR rubric looks at, and a second, bare resource.
FairTriples ==
    { <<R1, "rdf:type", DCAT_Dataset>>,
      <<R2, "rdf:type", DCAT_Resource>>,
      <<R1, "dcterms:created", Literal("2020-01-01", "xsd:date")>>,
      <<R1, "dcterms:modified", Literal("2021-01-01", "xsd:date")>>,
      <<R1, "dcterms:type", URIRef("https://example.com/type/dataset")>>,
      <<R1, "prov:qualifiedAttribution", BNode("qa1")>>,
      <<R1, "dcterms:isPartOf", CAT1>>,
      <<R1, "dcat:theme", DAR("open")>>,
      <<R1, "dcat:theme", DAR("embargoed")>>,
      <<R1, "dcat:mediaType", Literal("text/csv", "")>>,
      <<R1, "dcterms:format", Literal("csv", "")>>,
      <<R1, "dcterms:license", URIRef("https://example.com/licence/cc-by")>>,
      <<R1, "dcterms:source", URIRef("https://example.com/source")>> }

RC == URIRef("https://example.com/care/ds")

CATC == URIRef("https://example.com/care/catalogue")

FW == URIRef("https://example.com/care/framework")

QAC == BNode("qa2")

\* CARE: a resource in a catalogue that also holds a governance framework.
CareTriples ==
    { <<RC, "rdf:type", DCAT_Resource>>,
      <<RC, "dcterms:accessRights", Literal("open access", "")>>,
      <<RC, "dcterms:title", Literal("A dataset", "")>>,
      <<RC, "dcterms:isPartOf", CATC>>,
      <<RC, "rdfs:label", Literal("A dataset", "")>>,
      <<RC, "dcterms:description", Literal("About the dataset", "")>>,
      <<RC, "dcat:distribution", URIRef("https://example.com/care/dist")>>,
      <<RC, "dcterms:conformsTo", LC_IN("attribution-incomplete")>>,
      <<RC, "prov:qualifiedAttribution", QAC>>,
      <<QAC, "dcat:hadRole", ORG_INDIG("run-by-indigenous-persons")>>,
      <<QAC, "dcat:hadRole", IND_INDIG("by-indigenous-people")>>,
      <<FW, "dcterms:isPartOf", CATC>>,
      <<FW, "rdfs:label", Literal("Indigenous Data Governance Framework", "")>> }

NA == URIRef("https://example.com/a")

NB == URIRef("https://example.com/b")

\* DCAT structure: typing and part-of links in both directions, between two
\* nodes, on one node, and to a literal.
DcatTriples ==
    { <<NA, "rdf:type", DCAT_Dataset>>,
      <<NB, "rdf:type", DCAT_Dataset>>,
      <<NA, "rdf:type", DCAT_Resource>>,
      <<NA, "dcterms:isPartOf", NB>>,
      <<NB, "dcterms:isPartOf", NA>>,
      <<NA, "dcterms:hasPart", NB>>,
      <<NB, "dcterms:hasPart", NB>>,
      <<NB, "dcterms:hasPart", Literal("part", "")>> }

CAT2 == URIRef("https://example.com/catalogue2")

\* a resource with two catalogues and two sources, a URI and a plain literal
OrderTriples ==
    { <<R1, "rdf:type", DCAT_Resource>>,
      <<R1, "dcterms:isPartOf", CAT1>>,
      <<R1, "dcterms:isPartOf", CAT2>>,
      <<R1, "dcterms:source", URIRef("https://example.com/source")>>,
      <<R1, "dcterms:source", Literal("a survey", "")>> }

\* the families of inputs each calculator is run on
InputFamilies(c) ==
    IF c = "fair" THEN {FairTriples, DcatTriples} ELSE {CareTriples}

\* a resource whose source is a literal typed xsd:anyURI
AnyUriSourceTriples ==
    { <<R2, "rdf:type", DCAT_Resource>>,
      <<R2, "dcterms:source", Literal("https://example.com/source", "xsd:anyURI")>> }

\* a resource whose source is the empty literal typed xsd:anyURI
EmptySourceTriples ==
    { <<R2, "rdf:type", DCAT_Resource>>,
      <<R2, "dcterms:source", Literal("", "xsd:anyURI")>> }

\* a resource with two values of one richness property and no other
RepeatedTypeTriples ==
    { <<R2, "rdf:type", DCAT_Resource>>,
      <<R2, "dcterms:type", URIRef("https://example.com/type/dataset")>>,
      <<R2, "dcterms:type", URIRef("https://example.com/type/survey")>> }

\* main is given a Graph object: the graphs it is called with
MainInputs(c) ==
    IF c = "fair"
    THEN {FairTriples, DcatTriples, OrderTriples, AnyUriSourceTriples,
          EmptySourceTriples, RepeatedTypeTriples}
    ELSE {CareTriples}

\* process_directory: the metadata record of one file of the directory,
\* and the context files (the catalogue's governance framework)
FileTriples == {t \in CareTriples : t[1] \in {RC, QAC}}

ContextTriples == CareTriples \ FileTriples

-----------------------------------------------------------------------------
(* parser.py: the output argument.  An argument is its text, and what      *)
(* pathlib and str.endswith make of that text: Path(text).parent,          *)
(* Path(text).suffix, and the known file suffix the text ends with ("" if  *)
(* none).                                                                  *)

RDF_FILE_SUFFIXES ==
    [s \in {".ttl", ".rdf", ".json-ld", ".nt"} |->
        CASE s = ".ttl" -> "text/turtle"
          [] s = ".rdf" -> "application/rdf+xml"
          [] s = ".json-ld" -> "application/ld+json"
          [] s = ".nt" -> "text/nt"]

OutputArg(text, parent, suffix, ends) ==
    [text |-> text, parent |-> parent, suffix |-> suffix, ends |-> ends]

\* a format, "graph", a file in an existing directory, a file in a missing
\* directory, a file with an unknown extension, and a dot file (its suffix
\* is empty although its name ends with ".ttl")
Outputs ==
    { OutputArg("text/turtle", "text", "", ""),
      OutputArg("graph", ".", "", ""),
      OutputArg("out/scores.ttl", "out", ".ttl", ".ttl"),
      OutputArg("missing/scores.ttl", "missing", ".ttl", ".ttl"),
      OutputArg("out/scores.txt", "out", ".txt", ""),
      OutputArg("out/.ttl", "out", "", ".ttl") }

\* os.path.isdir; process_directory makes its scores-with-idgr directory
ExistingDirs == {".", "out", "out/scores-with-idgr"}

\* raises argparse.ArgumentTypeError
_get_valid_output_dir_raises(path) == path.parent \notin ExistingDirs

known_file_types == {".ttl", ".rdf", ".json-ld", ".nt"}

\* raises argparse.ArgumentTypeError
_get_valid_output_file_and_type_raises(path) == path.suffix \notin known_file_types

-----------------------------------------------------------------------------
(* parser.py: forward chaining. *)

\* Variant: the third rule asserts isPartOf in the direction of the hasPart
\* triple it reads instead of its inverse.
_forward_chain_dcat_uninverted(gr) ==
    LET g1 == gr \cup {<<s, "rdf:type", DCAT_Resource>> :
                          s \in Subjects(gr, "rdf:type", DCAT_Dataset)}
        g2 == g1 \cup {<<t[3], "dcterms:hasPart", t[1]>> :
                          t \in {u \in g1 : u[2] = "dcterms:isPartOf"}}
    IN  g2 \cup {<<t[1], "dcterms:isPartOf", t[3]>> :
                          t \in {u \in g2 : u[2] = "dcterms:hasPart"}}

\* Variant: hasPart is derived from isPartOf, but not the other way round.
_forward_chain_dcat_one_way(gr) ==
    LET g1 == gr \cup {<<s, "rdf:type", DCAT_Resource>> :
                          s \in Subjects(gr, "rdf:type", DCAT_Dataset)}
    IN  g1 \cup {<<t[3], "dcterms:hasPart", t[1]>> :
                          t \in {u \in g1 : u[2] = "dcterms:isPartOf"}}

\* Three loops, one after the other, each reading the graph the previous
\* one left: Dataset => Resource; isPartOf(s,o) => hasPart(o,s);
\* hasPart(s,o) => isPartOf(o,s).
_forward_chain_dcat(gr) ==
    LET g1 == gr \cup {<<s, "rdf:type", DCAT_Resource>> :
                          s \in Subjects(gr, "rdf:type", DCAT_Dataset)}
        g2 == g1 \cup {<<t[3], "dcterms:hasPart", t[1]>> :
                          t \in {u \in g1 : u[2] = "dcterms:isPartOf"}}
    IN  g2 \cup {<<t[3], "dcterms:isPartOf", t[1]>> :
                          t \in {u \in g2 : u[2] = "dcterms:hasPart"}}

\* The CARE label rule (enabled by care.main): a member of a container takes
\* the container's labels when it has none of its own.
_forward_chain_labels(gr) ==
    gr \cup UNION { {<<t[1], "rdfs:label", l>> :
                        l \in Objects(gr, t[3], "rdfs:label")} :
                    t \in {u \in gr : u[2] = "dcterms:isPartOf"
                               /\ Objects(gr, u[1], "rdfs:label") = {}} }

\* The CARE description rule, likewise.
_forward_chain_descriptions(gr) ==
    gr \cup UNION { {<<t[1], "dcterms:description", l>> :
                        l \in Objects(gr, t[3], "dcterms:description")} :
                    t \in {u \in gr : u[2] = "dcterms:isPartOf"
                               /\ Objects(gr, u[1], "dcterms:description") = {}} }

-----------------------------------------------------------------------------
(* Fetching (httpx.get): what one call can do. *)

\* a 2xx response; any other response; an exception that is an
\* httpx.HTTPError (transport errors, unsupported protocol, ...); an
\* exception that is not (httpx.InvalidURL for a malformed URL, ...).
FetchOutcomes == {"success", "failure", "HTTPError", "OtherError"}

-----------------------------------------------------------------------------
(* functions.py: the FAIR sub-scores. *)

\* 2 at the first declared value that is a mime type; otherwise 1 if some
\* value is a file extension; the result does not depend on the order.
machine_readability_score(gr, r) ==
    LET format_literals ==
            {Str(t[3]) : t \in TriplesChoices(gr, r, properties_for_mediatypes_formats)}
    IN  IF format_literals \cap machine_readable_mime_types # {} THEN 2
        ELSE IF format_literals \cap machine_readable_extensions # {} THEN 1
        ELSE 0

shared_vocabs_ontologies(gr, r) ==
    LET ts == TriplesChoices(gr, r, properties_expected_to_have_objects_with_uris)
        n_objects == Cardinality(ts)
        uris_count == Cardinality({t \in ts : t[3].kind = "URIRef"})
        literals_count == Cardinality({t \in ts : t[3].kind = "Literal"})
    IN  IF n_objects > 0
        THEN IF uris_count = 0 THEN 0
             ELSE IF literals_count = 0 THEN 2
             ELSE IF uris_count > literals_count THEN 1
             ELSE 0
        ELSE 0

\* Variant: the two points go to the resource that declares no licence.
licensing_score_of_unlicensed(gr, r) ==
    IF Cardinality(TriplesChoices(gr, r, data_usage_license_properties)) > 0
    THEN 0 ELSE 2

licensing_score(gr, r) ==
    IF Cardinality(TriplesChoices(gr, r, data_usage_license_properties)) > 0
    THEN 2 ELSE 0

\* reads the predicates of the whole graph, not those of one resource
provenance_score(gr) ==
    IF AllPredicates(gr) \cap PROV # {} THEN 2
    ELSE IF AllPredicates(gr) \cap additional_provenance_properties # {} THEN 2
    ELSE 0

\* metadata.value(resource, dcterms:source): one of the values, or None
SourceTerms(gr, r) ==
    IF Objects(gr, r, "dcterms:source") = {} THEN {None}
    ELSE Objects(gr, r, "dcterms:source")

data_source_score(source_term) ==
    IF source_term = None \/ ~Truthy(source_term) THEN 0
    ELSE IF source_term.kind = "URIRef" THEN 2
    ELSE IF source_term.kind = "Literal" /\ source_term.dt = "xsd:anyURI" THEN 1
    ELSE 0

searchable_score(gr) ==
    IF AllPredicates(gr) \cap searchable_properties # {} THEN 1 ELSE 0

-----------------------------------------------------------------------------
(* fair.py: the FAIR dimensions. *)

richness_properties ==
    {"dcterms:created", "dcterms:modified", "dcterms:type",
     "prov:qualifiedAttribution"}

\* the loop over pid_indicators: some indicator occurs in str(resource)
has_pid_indicator(r) ==
    \E i \in 1..Len(pid_indicators) : Contains(Pieces(Str(r)), pid_indicators[i])

\* c: one count per triple of the resource whose predicate is a richness
\* property (metadata.predicates yields a predicate once per triple)
richness_count(gr, r) ==
    Cardinality({t \in gr : t[1] = r /\ t[2] \in richness_properties})

\* the catalogue the loop over dcterms:isPartOf leaves in the variable: the
\* last object the graph yields, any of them; None when there is none
Catalogues(gr, r) ==
    IF Objects(gr, r, "dcterms:isPartOf") = {} THEN {None}
    ELSE Objects(gr, r, "dcterms:isPartOf")

\* Variant: without the point given to every record for being described.
calculate_f_no_description_point(gr, r, catalogue, out) ==
    LET c == richness_count(gr, r)
    IN  3 + (IF has_pid_indicator(r) THEN 5 ELSE 0) + 1
          + (IF c = 1 THEN 1 ELSE IF c = 2 THEN 2 ELSE IF c > 2 THEN 3 ELSE 0)
          + (IF catalogue # None
             THEN 2 + (IF out = "success" THEN 2 ELSE 0) ELSE 0)

\* f_value, given the catalogue chosen and the outcome of fetching it
calculate_f(gr, r, catalogue, out) ==
    LET c == richness_count(gr, r)
    IN  3 + (IF has_pid_indicator(r) THEN 5 ELSE 0) + 1 + 1
          + (IF c = 1 THEN 1 ELSE IF c = 2 THEN 2 ELSE IF c > 2 THEN 3 ELSE 0)
          + (IF catalogue # None
             THEN 2 + (IF out = "success" THEN 2 ELSE 0) ELSE 0)

\* calculate_f ends with the exception of the fetch: only httpx.HTTPError
\* is caught
calculate_f_raises(catalogue, out) == catalogue # None /\ out = "OtherError"

\* the award of one declared dcat:theme value
theme_award(o) ==
    IF o \in {DAR("protected"), DAR("restricted")} THEN 0
    ELSE IF o = DAR("metadata-only") THEN 2
    ELSE IF o = DAR("conditional") THEN 4
    ELSE IF o = DAR("embargoed") THEN 6
    ELSE IF o = DAR("open") THEN 10
    ELSE 0

RECURSIVE SumAwards(_)
SumAwards(themes) ==
    IF themes = {} THEN 0
    ELSE LET o == CHOOSE x \in themes : TRUE
         IN  theme_award(o) + SumAwards(themes \ {o})

\* Variant: the best award among the declared themes.
calculate_a_best_theme(gr, r) ==
    LET awards == {theme_award(o) : o \in Objects(gr, r, "dcat:theme")} \cup {0}
    IN  CHOOSE a \in awards : \A b \in awards : b <= a

\* a_value: every declared theme adds its award
calculate_a(gr, r) == SumAwards(Objects(gr, r, "dcat:theme"))

\* Variant: the bonus the comment above the branch describes, one point
\* when one or two points are scored.
calculate_i_as_commented(gr, r) ==
    LET i_value == machine_readability_score(gr, r) + 2
                     + shared_vocabs_ontologies(gr, r)
        i_value_ignoring_metadata == i_value - 2
    IN  IF i_value_ignoring_metadata >= 3 THEN i_value + 2
        ELSE IF i_value_ignoring_metadata >= 1 THEN i_value + 1
        ELSE i_value

calculate_i(gr, r) ==
    LET i_value == machine_readability_score(gr, r) + 2
                     + shared_vocabs_ontologies(gr, r)
        i_value_ignoring_metadata == i_value - 2
    IN  IF i_value_ignoring_metadata >= 3 THEN i_value + 2
        ELSE IF i_value_ignoring_metadata >= 1 THEN i_value + 2
        ELSE i_value

calculate_r(gr, r, source_term) ==
    licensing_score(gr, r) + provenance_score(gr) + data_source_score(source_term)

-----------------------------------------------------------------------------
(* care.py: the CARE sub-scores.  d is the outcome of fetching the resource *)
(* itself; outs are the outcomes of the catalogue fetches, in the order the *)
(* loop over the resource's dcterms:isPartOf objects makes them.            *)

\* one outcome per dcterms:isPartOf object of the resource
CatalogueFetches(gr, r) ==
    [1..Cardinality(Objects(gr, r, "dcterms:isPartOf")) -> FetchOutcomes]

calculate_c1_discoverable(d) == IF d = "success" THEN 1 ELSE 0

\* only httpx.HTTPError is caught
calculate_c1_discoverable_raises(d) == d = "OtherError"

calculate_c1_searchable(gr) == searchable_score(gr)

calculate_c1_accessible(gr, r) ==
    IF AnyObject(gr, r, "dcterms:accessRights") THEN 1 ELSE 0

calculate_care_c1(gr, r, d) ==
    calculate_c1_discoverable(d) + calculate_c1_searchable(gr)
      + calculate_c1_accessible(gr, r)

\* the loop from its i-th fetch on: an HTTPError returns 0, a success
\* returns 1, any other response goes on to the next catalogue
RECURSIVE c2_discoverable_from(_, _)
c2_discoverable_from(outs, i) ==
    IF i > Len(outs) THEN 0
    ELSE IF outs[i] = "success" THEN 1
    ELSE IF outs[i] = "failure" THEN c2_discoverable_from(outs, i + 1)
    ELSE 0

calculate_c2_discoverable(outs) == c2_discoverable_from(outs, 1)

\* the loop reaches a fetch whose exception is not an httpx.HTTPError
calculate_c2_discoverable_raises(outs) ==
    \E i \in 1..Len(outs) :
        /\ outs[i] = "OtherError"
        /\ \A j \in 1..(i - 1) : outs[j] = "failure"

\* Variant: the catalogue's point does not wait for C1 > 2.
calculate_care_c2_ungated(gr, r, c1_score, outs) ==
    (IF calculate_c2_discoverable(outs) = 1 THEN 1 ELSE 0)
      + (IF AnyObject(gr, r, "rdfs:label") THEN 1 ELSE 0)
      + (IF AnyObject(gr, r, "dcterms:description") THEN 1 ELSE 0)

calculate_care_c2(gr, r, c1_score, outs) ==
    (IF c1_score > 2 /\ calculate_c2_discoverable(outs) = 1 THEN 1 ELSE 0)
      + (IF AnyObject(gr, r, "rdfs:label") THEN 1 ELSE 0)
      + (IF AnyObject(gr, r, "dcterms:description") THEN 1 ELSE 0)

\* Variant: a third point, for the equitable outcomes the rubric names.
calculate_care_c3_three_points(gr, r, c2_score) ==
    (IF c2_score > 2 THEN 1 ELSE 0)
      + (IF AnyObject(gr, r, "dcat:distribution") THEN 1 ELSE 0)
      + (IF AnyObject(gr, r, "dcterms:description") THEN 1 ELSE 0)

calculate_care_c3(gr, r, c2_score) ==
    (IF c2_score > 2 THEN 1 ELSE 0)
      + (IF AnyObject(gr, r, "dcat:distribution") THEN 1 ELSE 0)

\* the catalogue fetches the loop makes: up to the first that is not a
\* non-2xx response
RECURSIVE c2_fetches_from(_, _)
c2_fetches_from(outs, i) ==
    IF i > Len(outs) THEN <<>>
    ELSE IF outs[i] = "failure" THEN <<outs[i]>> \o c2_fetches_from(outs, i + 1)
    ELSE <<outs[i]>>

\* the fetches made while computing C1 and C2: the resource, then, only
\* when C1 > 2, the catalogues
care_c12_fetches(gr, r, d, outs) ==
    <<d>> \o (IF calculate_c1_discoverable_raises(d)
                 \/ calculate_care_c1(gr, r, d) <= 2
              THEN <<>> ELSE c2_fetches_from(outs, 1))

\* C1, C2 and C3 computed one from the other, as every caller does
care_c123(gr, r, d, outs) ==
    LET c1_score == calculate_care_c1(gr, r, d)
        c2_score == calculate_care_c2(gr, r, c1_score, outs)
    IN  <<c1_score, c2_score, calculate_care_c3(gr, r, c2_score)>>

\* computing C1 and C2 ends with the exception of a fetch
care_c12_raises(gr, r, d, outs) ==
    \/ calculate_c1_discoverable_raises(d)
    \/ /\ calculate_care_c1(gr, r, d) > 2
       /\ calculate_c2_discoverable_raises(outs)

\* c_value
calculate_care_c(gr, r, d, outs) ==
    LET c == care_c123(gr, r, d, outs) IN c[1] + c[2] + c[3]

calculate_a11_notices(gr, r) ==
    IF \E t \in gr : t[1] = r /\ t[3] \in {LC_IN("attribution-incomplete"),
                                         LC_IN("open-to-collaborate")}
    THEN 1 ELSE 0

calculate_a12_licence_rights(gr, r) ==
    IF \/ AnyObject(gr, r, "dcterms:rights")
       \/ AnyObject(gr, r, "dcterms:license")
       \/ AnyObject(gr, r, "dcterms:accessRights")
    THEN 2 ELSE 0

calculate_care_a1(gr, r) ==
    calculate_a11_notices(gr, r) + calculate_a12_licence_rights(gr, r)

calculate_data_governance_framework(gr, r) ==
    IF \E catalog \in Objects(gr, r, "dcterms:isPartOf") :
         \E framework \in Objects(gr, catalog, "dcterms:hasPart") :
           \E label \in Objects(gr, framework, "rdfs:label") :
              /\ Contains(LowerText(Pieces(Str(label))), "governance")
              /\ Contains(LowerText(Pieces(Str(label))), "indigenous")
    THEN 2 ELSE 0

calculate_care_a2(gr, r, a1_score) ==
    (IF a1_score > 0 THEN 1 ELSE 0) + calculate_data_governance_framework(gr, r)

org_role_codes ==
    {ORG_INDIG("owned-by-indigenous-persons"),
     ORG_INDIG("indigenous-persons-organisation"),
     ORG_INDIG("run-by-indigenous-persons")}

ind_role_codes == {IND_INDIG("by-indigenous-people")}

org_indigeneity(gr, r) ==
    \E qabn \in Objects(gr, r, "prov:qualifiedAttribution") :
        Objects(gr, qabn, "dcat:hadRole") \cap org_role_codes # {}

ind_indigeneity(gr, r) ==
    \E qabn \in Objects(gr, r, "prov:qualifiedAttribution") :
        Objects(gr, qabn, "dcat:hadRole") \cap ind_role_codes # {}

calculate_a32_score(gr, r) == org_indigeneity(gr, r) \/ ind_indigeneity(gr, r)

calculate_care_a3(gr, r, a2_score) ==
    IF a2_score > 0 /\ calculate_a32_score(gr, r) THEN 3 ELSE 0

\* A1, A2 and A3 computed one from the other
care_a123(gr, r) ==
    LET a1_score == calculate_care_a1(gr, r)
        a2_score == calculate_care_a2(gr, r, a1_score)
    IN  <<a1_score, a2_score, calculate_care_a3(gr, r, a2_score)>>

\* a_value
calculate_care_a(gr, r) ==
    LET a == care_a123(gr, r) IN a[1] + a[2] + a[3]

calculate_r1(gr, r) ==
    IF /\ calculate_a11_notices(gr, r) > 0
       /\ calculate_a12_licence_rights(gr, r) > 1
       /\ calculate_a32_score(gr, r)
    THEN 3 ELSE 0

calculate_r2(gr, r) == 0

\* Variant: the framework adds its own score, 2, as it does in A2.
calculate_r3_adding_framework_score(gr, r, d, outs) ==
    LET c == care_c123(gr, r, d, outs)
        a == care_a123(gr, r)
    IN  calculate_data_governance_framework(gr, r)
          + (IF org_indigeneity(gr, r) THEN 1 ELSE 0)
          + (IF ind_indigeneity(gr, r) THEN 1 ELSE 0)
          + (IF c[1] > 0 /\ c[2] > 0 /\ c[3] > 0 /\ a[1] > 0 /\ a[2] > 0 /\ a[3] > 0
             THEN 3 ELSE 0)

\* recomputes C1..C3 (fetching again) and A1..A3
calculate_r3(gr, r, d, outs) ==
    LET c == care_c123(gr, r, d, outs)
        a == care_a123(gr, r)
    IN  (IF calculate_data_governance_framework(gr, r) > 0 THEN 1 ELSE 0)
          + (IF org_indigeneity(gr, r) THEN 1 ELSE 0)
          + (IF ind_indigeneity(gr, r) THEN 1 ELSE 0)
          + (IF c[1] > 0 /\ c[2] > 0 /\ c[3] > 0 /\ a[1] > 0 /\ a[2] > 0 /\ a[3] > 0
             THEN 3 ELSE 0)

\* r_value
calculate_care_r(gr, r, d, outs) ==
    calculate_r1(gr, r) + calculate_r2(gr, r) + calculate_r3(gr, r, d, outs)

\* Variant: the thresholds of calculate_r3, "> 0", in place of "> 1".
calculate_e1_above_zero(gr, r, d, outs) ==
    LET c == care_c123(gr, r, d, outs)
        a == care_a123(gr, r)
    IN  IF c[1] > 0 /\ c[2] > 0 /\ c[3] > 0 /\ a[1] > 0 /\ a[2] > 0 THEN 3 ELSE 0

\* recomputes C1..C3 (fetching again), A1 and A2
calculate_e1(gr, r, d, outs) ==
    LET c == care_c123(gr, r, d, outs)
        a == care_a123(gr, r)
    IN  IF c[1] > 1 /\ c[2] > 1 /\ c[3] > 1 /\ a[1] > 1 /\ a[2] > 1 THEN 3 ELSE 0

\* defined and tested, called by calculate_e3 only
calculate_e2(gr, r, d, outs) ==
    IF calculate_e1(gr, r, d, outs) > 2 /\ calculate_a32_score(gr, r) THEN 3 ELSE 0

\* defined and tested, never called
calculate_e3(gr, r, d, outs) ==
    LET a == care_a123(gr, r)
    IN  IF calculate_e2(gr, r, d, outs) > 2 /\ a[1] > 2 /\ a[2] > 1 THEN 3 ELSE 0

\* e_value: E1 alone
calculate_care_e(gr, r, d, outs) == calculate_e1(gr, r, d, outs)

-----------------------------------------------------------------------------
(* parser.py: the result graph.  A Score container stands for the triples  *)
(* (res hasScore node), (node rdf:type class), (node rdf:type              *)
(* qb:ObservationGroup), (node refResource res); an Observation for        *)
(* (node rdf:type qb:Observation), (group qb:observation node),            *)
(* (node prop val).                                                        *)

_create_observation_group(resource, score_class, node) ==
    [node |-> node, class |-> score_class, res |-> resource]

\* Variant: the observation is named after its container, not by a fresh
\* blank node.
_create_observation_named_by_container(score_container, score_property, score_value, node) ==
    [node |-> score_container + 1, group |-> score_container,
     prop |-> score_property, val |-> score_value]

_create_observation(score_container, score_property, score_value, node) ==
    [node |-> node, group |-> score_container, prop |-> score_property,
     val |-> score_value]

\* Literal(f"{n / d:.2f}") in hundredths: n / d rounded to two decimals as
\* Python formats the double, i.e. to the nearest hundredth, and to the even
\* one when n / d lies exactly half way (then the double is exact).
format_2f(n, d) ==
    LET q == (100 * n) \div d
        rem == (100 * n) % d
    IN  IF 2 * rem < d THEN q
        ELSE IF 2 * rem > d THEN q + 1
        ELSE IF q % 2 = 0 THEN q ELSE q + 1

\* the raw measure properties of each calculator, their normalised
\* counterparts and the maxima the normaliser divides by
RawProperties(c) ==
    IF c = "fair"
    THEN <<"fairFScore", "fairAScore", "fairIScore", "fairRScore">>
    ELSE <<"careCScore", "careAScore", "careRScore", "careEScore">>

NormalisedProperties(c) ==
    IF c = "fair"
    THEN <<"fairFScoreNormalised", "fairAScoreNormalised",
           "fairIScoreNormalised", "fairRScoreNormalised">>
    ELSE <<"careCScoreNormalised", "careAScoreNormalised",
           "careRScoreNormalised", "careEScoreNormalised">>

Maxima(c) == IF c = "fair" THEN <<17, 10, 8, 7>> ELSE <<8, 9, 9, 3>>

ScoreClass(c) == IF c = "fair" THEN "FairScore" ELSE "CareScore"

NormalisedClass(c) ==
    IF c = "fair" THEN "FairScoreNormalised" ELSE "CareScoreNormalised"

\* g.objects(subject=None, predicate=prop) on the result graph: the values
\* of that measure on any observation of the graph
ValuesOf(os, prop) == {o.val : o \in {x \in os : x.prop = prop}}

-----------------------------------------------------------------------------
(* The run of main. *)

Init ==
    /\ calc \in {"fair", "care"}
    /\ pc = "load"
    /\ g0 = {}
    /\ g = {}
    /\ chainRuns = 0
    /\ todo = {}
    /\ cur = None
    /\ groups = {}
    /\ obs = {}
    /\ nextId = 1
    /\ fetched = <<>>
    /\ err = "none"
    /\ validate = FALSE
    /\ conforms = "unchecked"
    /\ output = OutputArg("text/turtle", "text", "", "")

\* main called with a Graph object and any arguments
InitMain ==
    /\ calc \in {"fair", "care"}
    /\ pc = "load"
    /\ g0 \in MainInputs(calc)
    /\ g = g0
    /\ chainRuns = 0
    /\ todo = {}
    /\ cur = None
    /\ groups = {}
    /\ obs = {}
    /\ nextId = 1
    /\ fetched = <<>>
    /\ err = "none"
    /\ validate \in BOOLEAN
    /\ conforms = "unchecked"
    /\ output \in Outputs

\* _load_input_graph: parsing adds the triples of the input one by one
Load(t) ==
    /\ pc = "load"
    /\ t \notin g
    /\ \E family \in InputFamilies(calc) : g \cup {t} \subseteq family
    /\ g' = g \cup {t}
    /\ g0' = g'
    /\ UNCHANGED <<calc, validate, conforms, output, pc, chainRuns, todo, cur, groups, obs, nextId, fetched, err>>

\* main: _forward_chain_dcat(g), on the loaded graph or on a graph that was
\* chained before
ForwardChainDcat ==
    /\ pc \in {"load", "chained"}
    /\ chainRuns < MaxChainRuns
    /\ g' = _forward_chain_dcat(g)
    /\ chainRuns' = chainRuns + 1
    /\ pc' = "chained"
    /\ UNCHANGED <<calc, validate, conforms, output, g0, todo, cur, groups, obs, nextId, fetched, err>>

\* care.main: _forward_chain_labels(g)
ForwardChainLabels ==
    /\ pc = "chained"
    /\ calc = "care"
    /\ g' = _forward_chain_labels(g)
    /\ pc' = "labelled"
    /\ chainRuns' = 0
    /\ UNCHANGED <<calc, validate, conforms, output, g0, todo, cur, groups, obs, nextId, fetched, err>>

\* care.main: _forward_chain_descriptions(g)
ForwardChainDescriptions ==
    /\ pc = "labelled"
    /\ g' = _forward_chain_descriptions(g)
    /\ pc' = "described"
    /\ UNCHANGED <<calc, validate, conforms, output, g0, chainRuns, todo, cur, groups, obs, nextId, fetched, err>>

\* an exception leaves main: nothing is returned, printed or written
Raise(e, log) ==
    /\ pc' = "aborted"
    /\ fetched' = log
    /\ err' = e
    /\ todo' = {}
    /\ cur' = None
    /\ groups' = {}
    /\ obs' = {}
    /\ nextId' = nextId

\* where main is when it reaches "if validate:"
BuiltOut == IF calc = "fair" THEN "chained" ELSE "described"

\* Variant: the report is made and scoring goes on whatever it says.
ValidateReportOnly ==
    /\ pc = BuiltOut
    /\ validate
    /\ \E c \in {"conforms", "violates"} : conforms' = c
    /\ pc' = "validated"
    /\ UNCHANGED <<calc, validate, output, g0, g, chainRuns, todo, cur, groups, obs,
                   nextId, fetched, err>>

\* main: the input is validated against the shapes of validator.ttl; if it
\* does not conform, main raises ValueError
Validate ==
    /\ pc = BuiltOut
    /\ validate
    /\ \/ /\ conforms' = "conforms"
          /\ pc' = "validated"
          /\ UNCHANGED <<todo, cur, groups, obs, nextId, fetched, err>>
       \/ /\ conforms' = "violates"
          /\ Raise("ValueError", fetched)
    /\ UNCHANGED <<calc, validate, output, g0, g, chainRuns>>

\* the loop of calculate_fair_per_resource starts: a fresh result graph,
\* and the subjects typed dcat:Resource to go through
calculate_fair_per_resource ==
    /\ \/ pc = "chained" /\ ~validate
       \/ pc = "validated"
    /\ calc = "fair"
    /\ pc' = "score"
    /\ todo' = Subjects(g, "rdf:type", DCAT_Resource)
    /\ chainRuns' = 0
    /\ UNCHANGED <<calc, validate, conforms, output, g0, g, cur, groups, obs, nextId, fetched, err>>

\* Variant: a dimension whose value is zero is left out.
fair_scores_without_zeros(r, catalogue, out, source_term, base) ==
    [groups |-> {_create_observation_group(r, "FairScore", base)},
     obs |-> {o \in
              {_create_observation(base, "fairFScore",
                                   calculate_f(g, r, catalogue, out), base + 1),
               _create_observation(base, "fairAScore", calculate_a(g, r), base + 2),
               _create_observation(base, "fairIScore", calculate_i(g, r), base + 3),
               _create_observation(base, "fairRScore",
                                   calculate_r(g, r, source_term), base + 4)} :
              o.val # 0}]

\* the Score container of one resource and its four observations, with the
\* blank nodes base .. base + 4
fair_scores(r, catalogue, out, source_term, base) ==
    [groups |-> {_create_observation_group(r, "FairScore", base)},
     obs |-> {_create_observation(base, "fairFScore",
                                  calculate_f(g, r, catalogue, out), base + 1),
              _create_observation(base, "fairAScore", calculate_a(g, r), base + 2),
              _create_observation(base, "fairIScore", calculate_i(g, r), base + 3),
              _create_observation(base, "fairRScore",
                                  calculate_r(g, r, source_term), base + 4)}]

\* Variant: the fragments are unioned into the metadata graph as well.
calculate_fair_into_metadata(r) ==
    /\ pc = "score"
    /\ calc = "fair"
    /\ r \in todo
    /\ \E catalogue \in Catalogues(g, r), out \in FetchOutcomes,
          source_term \in SourceTerms(g, r) :
          IF calculate_f_raises(catalogue, out)
          THEN Raise("OtherError", <<out>>) /\ g' = g
          ELSE LET s == fair_scores(r, catalogue, out, source_term, nextId)
               IN  /\ groups' = groups \cup s.groups
                   /\ obs' = obs \cup s.obs
                   /\ g' = g \cup {<<r, "scores:hasScore", BNode("score")>>}
                   /\ nextId' = nextId + 5
                   /\ fetched' = IF catalogue = None THEN <<>> ELSE <<out>>
                   /\ todo' = todo \ {r}
                   /\ UNCHANGED <<pc, cur, err>>
    /\ UNCHANGED <<calc, validate, conforms, output, g0, chainRuns>>

\* one iteration of the loop: calculate_fair(g, r), its result unioned into
\* the result graph
calculate_fair(r) ==
    /\ pc = "score"
    /\ calc = "fair"
    /\ r \in todo
    /\ \E catalogue \in Catalogues(g, r), out \in FetchOutcomes,
          source_term \in SourceTerms(g, r) :
          IF calculate_f_raises(catalogue, out)
          THEN Raise("OtherError", <<out>>)
          ELSE LET s == fair_scores(r, catalogue, out, source_term, nextId)
               IN  /\ groups' = groups \cup s.groups
                   /\ obs' = obs \cup s.obs
                   /\ nextId' = nextId + 5
                   /\ fetched' = IF catalogue = None THEN <<>> ELSE <<out>>
                   /\ todo' = todo \ {r}
                   /\ UNCHANGED <<pc, cur, err>>
    /\ UNCHANGED <<calc, validate, conforms, output, g0, g, chainRuns>>

\* the loop of calculate_care_per_resource starts
calculate_care_per_resource ==
    /\ \/ pc = "described" /\ ~validate
       \/ pc = "validated"
    /\ calc = "care"
    /\ pc' = "score"
    /\ todo' = Subjects(g, "rdf:type", DCAT_Resource)
    /\ UNCHANGED <<calc, validate, conforms, output, g0, g, chainRuns, cur, groups, obs, nextId, fetched, err>>

\* calculate_care(g, r) up to its first dimension: the Score container,
\* then calculate_care_c
calculate_care_c_step(r) ==
    /\ pc = "score"
    /\ calc = "care"
    /\ r \in todo
    /\ \E d \in FetchOutcomes, outs \in CatalogueFetches(g, r) :
          IF care_c12_raises(g, r, d, outs)
          THEN Raise("OtherError", care_c12_fetches(g, r, d, outs))
          ELSE /\ groups' = groups \cup
                     {_create_observation_group(r, "CareScore", nextId)}
               /\ obs' = obs \cup
                     {_create_observation(nextId, "careCScore",
                          calculate_care_c(g, r, d, outs), nextId + 1)}
               /\ nextId' = nextId + 2
               /\ fetched' = care_c12_fetches(g, r, d, outs)
               /\ cur' = r
               /\ pc' = "care_a"
               /\ UNCHANGED <<todo, err>>
    /\ UNCHANGED <<calc, validate, conforms, output, g0, g, chainRuns>>

\* the container calculate_care is filling
CurrentContainer ==
    (CHOOSE c \in groups :
        c.res = cur /\ \A h \in groups : h.node <= c.node).node

calculate_care_a_step ==
    /\ pc = "care_a"
    /\ obs' = obs \cup {_create_observation(CurrentContainer, "careAScore",
                            calculate_care_a(g, cur), nextId)}
    /\ nextId' = nextId + 1
    /\ fetched' = <<>>
    /\ pc' = "care_r"
    /\ UNCHANGED <<calc, validate, conforms, output, g0, g, chainRuns, todo, cur, groups, err>>

calculate_care_r_step ==
    /\ pc = "care_r"
    /\ \E d \in FetchOutcomes, outs \in CatalogueFetches(g, cur) :
          IF care_c12_raises(g, cur, d, outs)
          THEN Raise("OtherError", care_c12_fetches(g, cur, d, outs))
          ELSE /\ obs' = obs \cup
                     {_create_observation(CurrentContainer, "careRScore",
                          calculate_care_r(g, cur, d, outs), nextId)}
               /\ nextId' = nextId + 1
               /\ fetched' = care_c12_fetches(g, cur, d, outs)
               /\ pc' = "care_e"
               /\ UNCHANGED <<todo, cur, groups, err>>
    /\ UNCHANGED <<calc, validate, conforms, output, g0, g, chainRuns>>

\* the last dimension; calculate_care returns and the loop goes on
calculate_care_e_step ==
    /\ pc = "care_e"
    /\ \E d \in FetchOutcomes, outs \in CatalogueFetches(g, cur) :
          IF care_c12_raises(g, cur, d, outs)
          THEN Raise("OtherError", care_c12_fetches(g, cur, d, outs))
          ELSE /\ obs' = obs \cup
                     {_create_observation(CurrentContainer, "careEScore",
                          calculate_care_e(g, cur, d, outs), nextId)}
               /\ nextId' = nextId + 1
               /\ fetched' = care_c12_fetches(g, cur, d, outs)
               /\ todo' = todo \ {cur}
               /\ cur' = None
               /\ pc' = "score"
               /\ UNCHANGED <<groups, err>>
    /\ UNCHANGED <<calc, validate, conforms, output, g0, g, chainRuns>>

\* The loop of normalise_*_scores over the (s, hasScore, o) triples the
\* graph holds when it starts.  For each it adds a normalised container for
\* s whose i-th observation is computed from picks[i]: the value that
\* next(g.objects(subject=None, predicate=<i-th raw property>)) returns,
\* the first value of that property the graph yields.  The loop adds no
\* triple of a raw property, so every iteration is given the same one.
normalised_scores(c, grps, base, picks) ==
    LET rank(n) == Cardinality({h \in grps : h.node < n})
        node(n) == base + 5 * rank(n)
    IN  [groups |-> {_create_observation_group(h.res, NormalisedClass(c), node(h.node)) :
                        h \in grps},
         obs |-> {_create_observation(node(h.node), NormalisedProperties(c)[i],
                      format_2f(picks[i], Maxima(c)[i]), node(h.node) + i) :
                        h \in grps, i \in 1..4}]

Normalise ==
    /\ pc = "score"
    /\ todo = {}
    /\ cur = None
    /\ IF groups = {}
       THEN UNCHANGED <<groups, obs, nextId>>
       ELSE \E p1 \in ValuesOf(obs, RawProperties(calc)[1]),
               p2 \in ValuesOf(obs, RawProperties(calc)[2]),
               p3 \in ValuesOf(obs, RawProperties(calc)[3]),
               p4 \in ValuesOf(obs, RawProperties(calc)[4]) :
               LET s == normalised_scores(calc, groups, nextId, <<p1, p2, p3, p4>>)
               IN  /\ groups' = groups \cup s.groups
                   /\ obs' = obs \cup s.obs
                   /\ nextId' = nextId + 5 * Cardinality(groups)
    /\ pc' = "normalised"
    /\ UNCHANGED <<calc, validate, conforms, output, g0, g, chainRuns, todo, cur, fetched, err>>

\* main: scores = calculate_fair_per_resource(g); normalise_fair_scores(scores)
normalise_fair_scores == calc = "fair" /\ Normalise

\* main: scores = calculate_care_per_resource(g); normalise_care_scores(scores)
normalise_care_scores == calc = "care" /\ Normalise

\* A second pass of calculate_*_per_resource over the same metadata, its
\* result unioned (Graph +=) with the result of the first.
calculate_per_resource_again ==
    /\ pc = "score"
    /\ todo = {}
    /\ cur = None
    /\ \E r \in Subjects(g, "rdf:type", DCAT_Resource) :
           Cardinality({h \in groups : h.res = r}) < MaxPasses
    /\ todo' = Subjects(g, "rdf:type", DCAT_Resource)
    /\ UNCHANGED <<calc, validate, conforms, output, pc, g0, g, chainRuns, cur,
                   groups, obs, nextId, fetched, err>>

\* main, "generate output": print the serialisation, write it to a file, or
\* return the Graph
GenerateOutput ==
    /\ pc = "normalised"
    /\ IF output.text \in {RDF_FILE_SUFFIXES[k] : k \in DOMAIN RDF_FILE_SUFFIXES}
       THEN /\ pc' = "printed"
            /\ UNCHANGED <<todo, cur, groups, obs, nextId, fetched, err>>
       ELSE IF output.ends # ""
       THEN IF _get_valid_output_dir_raises(output)
                 \/ _get_valid_output_file_and_type_raises(output)
            THEN Raise("ArgumentTypeError", fetched)
            ELSE /\ pc' = "written"
                 /\ UNCHANGED <<todo, cur, groups, obs, nextId, fetched, err>>
       ELSE /\ pc' = "returned"
            /\ UNCHANGED <<todo, cur, groups, obs, nextId, fetched, err>>
    /\ UNCHANGED <<calc, validate, conforms, output, g0, g, chainRuns>>

Next ==
    \/ \E t \in FairTriples \cup DcatTriples \cup CareTriples : Load(t)
    \/ ForwardChainDcat
    \/ ForwardChainLabels
    \/ ForwardChainDescriptions
    \/ calculate_fair_per_resource
    \/ \E r \in todo : calculate_fair(r)
    \/ normalise_fair_scores
    \/ calculate_care_per_resource
    \/ \E r \in todo : calculate_care_c_step(r)
    \/ calculate_care_a_step
    \/ calculate_care_r_step
    \/ calculate_care_e_step
    \/ normalise_care_scores

Spec == Init /\ [][Next]_vars

\* main called on a Graph object with any arguments, through to its output
NextMain ==
    \/ ForwardChainDcat
    \/ ForwardChainLabels
    \/ ForwardChainDescriptions
    \/ Validate
    \/ calculate_fair_per_resource
    \/ \E r \in todo : calculate_fair(r)
    \/ normalise_fair_scores
    \/ calculate_care_per_resource
    \/ \E r \in todo : calculate_care_c_step(r)
    \/ calculate_care_a_step
    \/ calculate_care_r_step
    \/ calculate_care_e_step
    \/ normalise_care_scores
    \/ calculate_per_resource_again
    \/ GenerateOutput

MainSpec == InitMain /\ [][NextMain]_vars

-----------------------------------------------------------------------------
(* process_directory.py: one file of the directory, with context files. *)

\* the output path process_directory builds: in scores_path, which it has
\* just made
BatchOutput(c) ==
    IF c = "care"
    THEN OutputArg("out/scores-with-idgr/file-care.ttl", "out/scores-with-idgr",
                   ".ttl", ".ttl")
    ELSE OutputArg("out/scores-with-idgr/file-fair.ttl", "out/scores-with-idgr",
                   ".ttl", ".ttl")

InitBatch ==
    /\ calc = "care"
    /\ pc = "batch"
    /\ g0 = {}
    /\ g = {}
    /\ chainRuns = 0
    /\ todo = {}
    /\ cur = None
    /\ groups = {}
    /\ obs = {}
    /\ nextId = 1
    /\ fetched = <<>>
    /\ err = "none"
    /\ validate \in BOOLEAN
    /\ conforms = "unchecked"
    /\ output = BatchOutput("care")

\* "if not skip_care": cg = context + file; care_main(cg, care_output, validate)
process_directory_care ==
    /\ pc = "batch"
    /\ \E skip_care \in BOOLEAN :
          IF skip_care
          THEN pc' = "care_skipped" /\ UNCHANGED <<g0, g>>
          ELSE /\ g' = ContextTriples \cup FileTriples
               /\ g0' = g'
               /\ pc' = "load"
    /\ UNCHANGED <<calc, validate, conforms, output, chainRuns, todo, cur, groups, obs,
                   nextId, fetched, err>>

\* "if not skip_fair": fg is built from the context and the file, and
\* fair_main(file_path, fair_output, validate) loads the file itself
process_directory_fair ==
    /\ \/ pc = "care_skipped"
       \/ pc = "written" /\ calc = "care"
    /\ \E skip_fair \in BOOLEAN :
          IF skip_fair
          THEN /\ pc' = "fair_skipped"
               /\ UNCHANGED <<calc, g0, g, output, conforms, groups, obs, fetched, chainRuns>>
          ELSE /\ calc' = "fair"
               /\ output' = BatchOutput("fair")
               /\ g' = FileTriples
               /\ g0' = g'
               /\ conforms' = "unchecked"
               /\ groups' = {}
               /\ obs' = {}
               /\ fetched' = <<>>
               /\ chainRuns' = 0
               /\ pc' = "load"
    /\ UNCHANGED <<validate, todo, cur, nextId, err>>

NextBatch ==
    \/ process_directory_care
    \/ process_directory_fair
    \/ ForwardChainDcat
    \/ ForwardChainLabels
    \/ ForwardChainDescriptions
    \/ Validate
    \/ calculate_fair_per_resource
    \/ \E r \in todo : calculate_fair(r)
    \/ normalise_fair_scores
    \/ calculate_care_per_resource
    \/ \E r \in todo : calculate_care_c_step(r)
    \/ calculate_care_a_step
    \/ calculate_care_r_step
    \/ calculate_care_e_step
    \/ normalise_care_scores
    \/ GenerateOutput

BatchSpec == InitBatch /\ [][NextBatch]_vars

-----------------------------------------------------------------------------
(* Properties. *)

\* the resource an observation is about
ResourceOf(o) == (CHOOSE h \in groups : h.node = o.group).res

\* the observations of measure prop held by a container of class cls of
\* resource r
ObservationsOf(r, cls, prop) ==
    {o \in obs : o.prop = prop
                 /\ \E h \in groups : h.node = o.group /\ h.class = cls /\ h.res = r}

\* the Score container the last scoring step made
LastGroup == CHOOSE h \in groups : \A k \in groups : k.node <= h.node

\* C1: every normalised observation emitted for a resource equals that
\* resource's own raw value of the dimension divided by the dimension's
\* maximum (to two decimals), never the raw value of another resource.
C1_NormalisedFromOwnRaw ==
    \A h \in groups : \A i \in 1..4 :
        h.class = NormalisedClass(calc) =>
            \A o \in ObservationsOf(h.res, NormalisedClass(calc),
                                    NormalisedProperties(calc)[i]) :
                \E raw \in ObservationsOf(h.res, ScoreClass(calc),
                                          RawProperties(calc)[i]) :
                    o.val = format_2f(raw.val, Maxima(calc)[i])

\* C2: the FAIR-A raw score of every resource is within [0, 10], also when
\* the resource declares more than one dcat:theme value.
C2_FairAWithinTen ==
    \A o \in obs : o.prop = "fairAScore" => o.val \in 0..10

\* C3: the raw scores of the dimensions other than FAIR-A stay within their
\* documented ranges, whatever the fetches do: FAIR-F in [0,17], FAIR-I in
\* [0,8], FAIR-R in [0,7], CARE-C in [0,8], CARE-A in [0,9], CARE-R in
\* [0,9], CARE-E in [0,3].
C3_RawScoresWithinRange ==
    \A o \in obs :
        /\ o.prop = "fairFScore" => o.val \in 0..17
        /\ o.prop = "fairIScore" => o.val \in 0..8
        /\ o.prop = "fairRScore" => o.val \in 0..7
        /\ o.prop = "careCScore" => o.val \in 0..8
        /\ o.prop = "careAScore" => o.val \in 0..9
        /\ o.prop = "careRScore" => o.val \in 0..9
        /\ o.prop = "careEScore" => o.val \in 0..3

\* C3 witness: a resource scored by calculate_care (its fetches succeeding)
\* with every CARE dimension at the top of its range.
C3_Witness ==
    /\ pc = "score"
    /\ \E h \in groups :
        /\ h.class = "CareScore"
        /\ \E o \in obs : o.group = h.node /\ o.prop = "careCScore" /\ o.val = 8
        /\ \E o \in obs : o.group = h.node /\ o.prop = "careAScore" /\ o.val = 9
        /\ \E o \in obs : o.group = h.node /\ o.prop = "careRScore" /\ o.val = 9
        /\ \E o \in obs : o.group = h.node /\ o.prop = "careEScore" /\ o.val = 3

\* C4: the maximum of FAIR-R the normaliser divides by is attained: a
\* resource whose licensing, provenance and data source sub-scores are all
\* at their best (a licence, a provenance property, a dcterms:source that
\* is a URI) is given FAIR-R = 7.
C4_FairRSevenAttained ==
    \A o \in obs :
        ( /\ o.prop = "fairRScore"
          /\ Objects(g, ResourceOf(o), "dcterms:license") # {}
          /\ AllPredicates(g) \cap PROV # {}
          /\ \A src \in Objects(g, ResourceOf(o), "dcterms:source") :
                 src.kind = "URIRef"
          /\ Objects(g, ResourceOf(o), "dcterms:source") # {} )
        => o.val = 7

\* what the code does instead: no FAIR-R above 6 is ever emitted
FairRAtMostSix ==
    \A o \in obs : o.prop = "fairRScore" => o.val <= 6

\* C5: every normalised observation value lies in [0, 1] (0 to 100
\* hundredths).
C5_NormalisedInUnitInterval ==
    \A o \in obs : \A i \in 1..4 :
        o.prop = NormalisedProperties(calc)[i] => o.val \in 0..100

\* C6: _forward_chain_dcat is idempotent: run on its own output it adds no
\* triple.
C6_ForwardChainIdempotent ==
    [][(pc = "chained" /\ pc' = "chained") => (g' = g)]_vars

\* C6 witness: the second run has been made on a graph the first run added
\* both a hasPart and an isPartOf triple to.
C6_Witness ==
    /\ pc = "chained"
    /\ chainRuns = 2
    /\ \E t \in g \ g0 : t[2] = "dcterms:hasPart"
    /\ \E t \in g \ g0 : t[2] = "dcterms:isPartOf"

\* C7: after one run of _forward_chain_dcat every subject typed
\* dcat:Dataset is typed dcat:Resource, isPartOf(A,B) holds exactly when
\* hasPart(B,A) holds, and every triple of the input is still there.
C7_ForwardChainClosure ==
    (pc = "chained" /\ chainRuns = 1) =>
        /\ g0 \subseteq g
        /\ \A s \in Subjects(g, "rdf:type", DCAT_Dataset) :
               <<s, "rdf:type", DCAT_Resource>> \in g
        /\ \A t \in g :
               /\ t[2] = "dcterms:isPartOf" => <<t[3], "dcterms:hasPart", t[1]>> \in g
               /\ t[2] = "dcterms:hasPart" => <<t[3], "dcterms:isPartOf", t[1]>> \in g

\* C7 witness: one run, on an input with a Dataset not yet typed Resource
\* and a hasPart triple whose inverse was missing.
C7_Witness ==
    /\ pc = "chained"
    /\ chainRuns = 1
    /\ \E s \in Subjects(g0, "rdf:type", DCAT_Dataset) :
           <<s, "rdf:type", DCAT_Resource>> \notin g0
    /\ \E t \in g0 :
           t[2] = "dcterms:hasPart" /\ <<t[3], "dcterms:isPartOf", t[1]>> \notin g0

\* C8: scoring and normalising never change the metadata graph: the
\* Score and Observation triples go to the result graph only.
C8_ScoringLeavesMetadata ==
    [][(pc \in {"score", "care_a", "care_r", "care_e"}) => (g' = g)]_vars

\* C8 witness: every resource of a graph has been scored and the result
\* normalised, FAIR scores of two resources among them.
C8_Witness ==
    /\ pc = "normalised"
    /\ \E h \in groups : h.class = "FairScore" /\ h.res = R1
    /\ \E h \in groups : h.class = "FairScore" /\ h.res = R2
    /\ \E h \in groups : h.class = "FairScoreNormalised"

\* the richness tier of a resource: by the number c of its triples with a
\* richness property, 0 -> 0, 1 -> 1, 2 -> 2, more -> 3
RichnessTier(r) ==
    LET c == Cardinality({t \in g : t[1] = r /\ t[2] \in
                 {"dcterms:created", "dcterms:modified", "dcterms:type",
                  "prov:qualifiedAttribution"}})
    IN  IF c > 2 THEN 3 ELSE c

\* the rubric sum of C9 for the resource just scored, without any other
\* term
RubricSumF(r) ==
    3 + (IF r = R1 THEN 5 ELSE 0) + 1 + RichnessTier(r)
      + (IF Objects(g, r, "dcterms:isPartOf") # {} THEN 2 ELSE 0)
      + (IF fetched = <<"success">> THEN 2 ELSE 0)

\* the state just after calculate_fair scored a resource
JustScoredFair == calc = "fair" /\ pc = "score" /\ groups # {}

\* C9 (as claimed): FAIR-F is exactly 3 + 5 (persistent identifier) + 1 +
\* richness tier + 2 (catalogue declared) + 2 (catalogue fetched), with no
\* other term; 16 for the resource of scenario 1.
C9_RubricSumAsClaimed ==
    JustScoredFair =>
        \A o \in obs :
            (o.group = LastGroup.node /\ o.prop = "fairFScore")
            => o.val = RubricSumF(LastGroup.res)

\* C9 (amended): FAIR-F is that sum plus the one point calculate_f gives
\* every record for being described; 17 for the resource of scenario 1.
C9_RubricSumPlusDescriptionPoint ==
    JustScoredFair =>
        \A o \in obs :
            (o.group = LastGroup.node /\ o.prop = "fairFScore")
            => o.val = RubricSumF(LastGroup.res) + 1

\* C9 witness: scenario 1 has been scored: a DOI resource, part of a
\* catalogue whose fetch succeeded, with created, modified, type and
\* qualifiedAttribution; its FAIR-F is 17.
C9_Witness ==
    /\ JustScoredFair
    /\ LastGroup.res = R1
    /\ fetched = <<"success">>
    /\ \A p \in {"dcterms:created", "dcterms:modified", "dcterms:type",
                 "prov:qualifiedAttribution", "dcterms:isPartOf"} :
           Objects(g, R1, p) # {}
    /\ \E o \in obs :
           o.group = LastGroup.node /\ o.prop = "fairFScore" /\ o.val = 17

\* C10: whatever a fetch does, failure or exception, the scoring run is
\* not ended by it: main never ends with the exception of a fetch.
C10_FetchFailureNeverPropagates ==
    ~(pc = "aborted" /\ err = "OtherError")

\* the positions of main from the start of scoring on
Scoring == {"score", "care_a", "care_r", "care_e"}

Ended == {"printed", "written", "returned"}

\* C11: when validation is requested and the input does not conform, main
\* ends with ValueError and nothing is scored, normalised, printed or
\* written; scoring only starts, under validation, on an input that
\* conforms, and with output "graph" main then ends by returning the Graph.
C11_NonConformantInputAborts ==
    /\ conforms = "violates" =>
           /\ pc = "aborted"
           /\ err = "ValueError"
           /\ groups = {}
           /\ obs = {}
    /\ (validate /\ pc \in Scoring \cup {"normalised"} \cup Ended) =>
           conforms = "conforms"
    /\ (conforms = "conforms" /\ output.text = "graph" /\ pc \in Ended) =>
           pc = "returned"
    /\ err = "ValueError" => conforms = "violates"

\* C11 witness: validation was requested of a graph with resources to
\* score, the validator reported violations, and main raised ValueError.
C11_Witness ==
    /\ validate
    /\ conforms = "violates"
    /\ pc = "aborted"
    /\ err = "ValueError"
    /\ Subjects(g, "rdf:type", DCAT_Resource) # {}

\* the text of an output argument names a file: it ends with a known file
\* suffix or has an extension of its own
IsFilePath(o) == o.ends # "" \/ o.suffix # ""

\* C12: an output file path with an extension outside .ttl, .rdf,
\* .json-ld, .nt, or in a directory that does not exist, ends main with an
\* error and never with a normal return; the error comes before any
\* scoring is done.
C12_BadOutputIsFatal ==
    (/\ IsFilePath(output)
     /\ \/ output.suffix \notin known_file_types
        \/ output.parent \notin ExistingDirs)
    => /\ pc \notin Ended
       /\ pc \notin Scoring \cup {"normalised"}

\* calculate_*_per_resource has returned its result graph
PerResourceReturned == pc = "score" /\ todo = {} /\ cur = None

\* C13: the result of calculate_fair_per_resource / calculate_care_per_resource
\* holds, for each subject typed dcat:Resource and for no other, exactly one
\* FairScore / CareScore container, and that container holds exactly one
\* Observation of each of the four dimensions, a zero value included.
C13_BatchCompleteness ==
    PerResourceReturned =>
        /\ \A r \in Subjects(g, "rdf:type", DCAT_Resource) :
               Cardinality({h \in groups : h.res = r /\ h.class = ScoreClass(calc)}) = 1
        /\ \A h \in groups :
               /\ h.class = ScoreClass(calc)
               /\ h.res \in Subjects(g, "rdf:type", DCAT_Resource)
               /\ \A i \in 1..4 :
                      Cardinality({o \in obs : o.group = h.node
                                      /\ o.prop = RawProperties(calc)[i]}) = 1
        /\ \A o \in obs : \E h \in groups : o.group = h.node

\* C13 witness: two resources were scored by calculate_fair_per_resource,
\* one of them with a dimension (FAIR-A) of value zero.
C13_Witness ==
    /\ PerResourceReturned
    /\ calc = "fair"
    /\ {R1, R2} \subseteq {h.res : h \in groups}
    /\ \E o \in obs : o.prop = "fairAScore" /\ o.val = 0 /\ ResourceOf(o) = R2

\* C14: in every result graph, of one scoring pass or of several, with or
\* without the normalised scores, every Observation node belongs to exactly
\* one Score container and carries exactly one measure, and is no container
\* itself.
C14_ObservationInOneContainer ==
    \A o \in obs :
        /\ Cardinality({h \in groups : h.node = o.group}) = 1
        /\ \A o2 \in obs : o2.node = o.node => o2 = o
        /\ \A h \in groups : h.node # o.node

\* C14 witness: a resource scored in two passes, both results unioned and
\* normalised: it has two Score containers and two normalised ones.
C14_Witness ==
    /\ pc = "normalised"
    /\ \E r \in Subjects(g, "rdf:type", DCAT_Resource) :
           /\ Cardinality({h \in groups : h.res = r /\ h.class = ScoreClass(calc)}) = 2
           /\ Cardinality({h \in groups : h.res = r /\ h.class = NormalisedClass(calc)}) = 2

\* the state just after calculate_care scored a resource
JustScoredCare == calc = "care" /\ pc = "score" /\ groups # {}

\* the value of measure prop in the container calculate_care just filled
LastValue(prop) ==
    (CHOOSE o \in obs : o.group = LastGroup.node /\ o.prop = prop).val

\* C15: each CARE dimension value emitted for a resource is the sum of the
\* dimension's three sub-scores (for some outcome of the fetches they
\* make): C1+C2+C3, A1+A2+A3, R1+R2+R3 and E1+E2+E3.
C15_DimensionIsSumOfThree ==
    JustScoredCare =>
        LET r == LastGroup.res
            a == care_a123(g, r)
        IN  /\ \E d \in FetchOutcomes, outs \in CatalogueFetches(g, r) :
                  LET c == care_c123(g, r, d, outs)
                  IN  LastValue("careCScore") = c[1] + c[2] + c[3]
            /\ LastValue("careAScore") = a[1] + a[2] + a[3]
            /\ \E d \in FetchOutcomes, outs \in CatalogueFetches(g, r) :
                  LastValue("careRScore") =
                      calculate_r1(g, r) + calculate_r2(g, r)
                        + calculate_r3(g, r, d, outs)
            /\ \E d \in FetchOutcomes, outs \in CatalogueFetches(g, r) :
                  LastValue("careEScore") =
                      calculate_e1(g, r, d, outs) + calculate_e2(g, r, d, outs)
                        + calculate_e3(g, r, d, outs)

\* the part of C15 the code does satisfy: C, A and R are the sums of their
\* three sub-scores, and E is E1
CareSumsWithoutE2E3 ==
    JustScoredCare =>
        LET r == LastGroup.res
            a == care_a123(g, r)
        IN  /\ \E d \in FetchOutcomes, outs \in CatalogueFetches(g, r) :
                  LET c == care_c123(g, r, d, outs)
                  IN  LastValue("careCScore") = c[1] + c[2] + c[3]
            /\ LastValue("careAScore") = a[1] + a[2] + a[3]
            /\ \E d \in FetchOutcomes, outs \in CatalogueFetches(g, r) :
                  LastValue("careRScore") =
                      calculate_r1(g, r) + calculate_r2(g, r)
                        + calculate_r3(g, r, d, outs)
            /\ \E d \in FetchOutcomes, outs \in CatalogueFetches(g, r) :
                  LastValue("careEScore") = calculate_e1(g, r, d, outs)

\* the graph without the triples of other resources: the triples whose
\* subject is r or a node that a triple of r refers to
OwnTriples(gr, r) ==
    {t \in gr : t[1] = r \/ \E u \in gr : u[1] = r /\ u[3] = t[1]}

\* C16: the FAIR values emitted for a resource are those it is given when
\* the graph holds no triple of another resource it does not refer to.
C16_FairScoresOfOwnTriples ==
    \A h \in groups : \A o \in obs :
        (h.class = "FairScore" /\ o.group = h.node) =>
            LET own == OwnTriples(g, h.res)
            IN  /\ o.prop = "fairFScore" =>
                       \E c \in Catalogues(own, h.res), out \in FetchOutcomes :
                           o.val = calculate_f(own, h.res, c, out)
                /\ o.prop = "fairAScore" => o.val = calculate_a(own, h.res)
                /\ o.prop = "fairIScore" => o.val = calculate_i(own, h.res)
                /\ o.prop = "fairRScore" =>
                       \E src \in SourceTerms(own, h.res) :
                           o.val = calculate_r(own, h.res, src)

\* what does hold: FAIR-F, FAIR-A and FAIR-I are those of the resource's
\* own triples
FairFAIOfOwnTriples ==
    \A h \in groups : \A o \in obs :
        (h.class = "FairScore" /\ o.group = h.node) =>
            LET own == OwnTriples(g, h.res)
            IN  /\ o.prop = "fairFScore" =>
                       \E c \in Catalogues(own, h.res), out \in FetchOutcomes :
                           o.val = calculate_f(own, h.res, c, out)
                /\ o.prop = "fairAScore" => o.val = calculate_a(own, h.res)
                /\ o.prop = "fairIScore" => o.val = calculate_i(own, h.res)

\* C17: the values emitted by one calculate_care pass are consistent with
\* each other whatever the repeated fetches return: careEScore = 3 comes
\* only with a careCScore made of C1 > 1, C2 > 1 and C3 > 1, and these
\* thresholds are only met by C1 = 3, C2 = 3, C3 = 2.
C17_CareEConsistentWithCareC ==
    JustScoredCare =>
        (LastValue("careEScore") = 3 => LastValue("careCScore") = 8)

\* C18: with the outcome of a fetch fixed per URI, calculate_f and
\* data_source_score give a resource one value, whichever of its
\* dcterms:isPartOf objects the graph yields last and whichever of its
\* dcterms:source values the graph yields first.
C18_OrderIndependent ==
    JustScoredFair =>
    \A r \in {h.res : h \in groups} :
        /\ Objects(g, r, "dcterms:isPartOf") # {} =>
               \A reach \in [Objects(g, r, "dcterms:isPartOf") -> FetchOutcomes] :
                   \A c1, c2 \in Catalogues(g, r) :
                       calculate_f(g, r, c1, reach[c1]) = calculate_f(g, r, c2, reach[c2])
        /\ \A s1, s2 \in SourceTerms(g, r) :
               data_source_score(s1) = data_source_score(s2)

\* the triple a step of the parser adds to the graph, if it adds one
Added == g' \ g

\* C19: adding a dcterms:license triple to a resource, all else the same
\* (the dcterms:source value read included), never lowers the FAIR-R value
\* calculate_r gives the resource.
C19_LicenceNeverLowersFairR ==
    [][\A t \in Added :
          (pc = "load" /\ pc' = "load" /\ t[2] = "dcterms:license") =>
              \A src \in SourceTerms(g, t[1]) :
                  calculate_r(g', t[1], src) >= calculate_r(g, t[1], src)]_vars

\* C19 witness: a graph with a licensed resource whose FAIR-R is higher
\* than without the licence triple.
C19_Witness ==
    /\ pc = "load"
    /\ \E t \in g :
           /\ t[2] = "dcterms:license"
           /\ \E src \in SourceTerms(g, t[1]) :
                  calculate_r(g, t[1], src) > calculate_r(g \ {t}, t[1], src)

\* a triple FAIR-I depends on: a format or media type that is a recognised
\* mime type or file extension, or a licence
QualifiesForFairI(t) ==
    \/ /\ t[2] \in properties_for_mediatypes_formats
       /\ Str(t[3]) \in machine_readable_mime_types \cup machine_readable_extensions
    \/ t[2] = "dcterms:license"

\* C20: adding a qualifying triple to a resource, all else the same, never
\* lowers the FAIR-I value calculate_i gives the resource.
C20_QualifyingTripleNeverLowersFairI ==
    [][\A t \in Added :
          (pc = "load" /\ pc' = "load" /\ QualifiesForFairI(t)) =>
              calculate_i(g', t[1]) >= calculate_i(g, t[1])]_vars

\* the declared format and media-type values of r, and the objects of the
\* properties expected to hold URIs
FormatValues(r) ==
    {t[3].lex : t \in {u \in g : u[1] = r /\ u[2] \in properties_for_mediatypes_formats}}

VocabObjects(r) ==
    {t \in g : t[1] = r /\ t[2] \in properties_expected_to_have_objects_with_uris}

\* m and v as the rubric words them
RubricM(r) ==
    IF \E f \in FormatValues(r) : f \in machine_readable_mime_types THEN 2
    ELSE IF \E f \in FormatValues(r) : f \in machine_readable_extensions THEN 1
    ELSE 0

RubricV(r) ==
    LET uris == Cardinality({t \in VocabObjects(r) : t[3].kind = "URIRef"})
        literals == Cardinality({t \in VocabObjects(r) : t[3].kind = "Literal"})
    IN  IF uris = 0 THEN 0
        ELSE IF literals = 0 THEN 2
        ELSE IF uris > literals THEN 1
        ELSE 0

Themes(r) == {t[3] : t \in {u \in g : u[1] = r /\ u[2] = "dcat:theme"}}

\* C22: the FAIR-A value emitted for a resource is the sum, over its
\* declared themes, of the theme's award (protected, restricted 0;
\* metadata-only 2; conditional 4; embargoed 6; open 10; other 0): 10 when
\* the only theme is open, 0 when there is none.
C22_FairAIsSumOfAwards ==
    JustScoredFair =>
        LET th == Themes(LastGroup.res)
            award(name, a) == IF DAR(name) \in th THEN a ELSE 0
        IN  /\ LastValue("fairAScore") =
                   award("metadata-only", 2) + award("conditional", 4)
                     + award("embargoed", 6) + award("open", 10)
            /\ th = {DAR("open")} => LastValue("fairAScore") = 10
            /\ th = {} => LastValue("fairAScore") = 0

\* two themes declared, their awards added
C22_Witness ==
    /\ JustScoredFair
    /\ Cardinality(Themes(LastGroup.res)) >= 2
    /\ LastValue("fairAScore") > 10

\* the data source score as the rubric words it
RubricSourceScore(source_term) ==
    IF source_term = None THEN 0
    ELSE IF source_term.kind = "URIRef" THEN 2
    ELSE IF source_term.kind = "Literal" /\ source_term.dt = "xsd:anyURI" THEN 1
    ELSE 0

\* C23: the FAIR-R value emitted for a resource is licensing_score (0 or 2)
\* + provenance_score (0 or 2) + the data source score of its
\* dcterms:source value: 0 without a source, 2 for a URI, 1 for a literal of
\* datatype xsd:anyURI, 0 for any other literal.
C23_FairRWithSourceScore ==
    JustScoredFair =>
        LET r == LastGroup.res
        IN  /\ licensing_score(g, r) \in {0, 2}
            /\ provenance_score(g) \in {0, 2}
            /\ \E s \in SourceTerms(g, r) :
                   LastValue("fairRScore") =
                       licensing_score(g, r) + provenance_score(g)
                         + RubricSourceScore(s)

\* the value of measure prop in the container calculate_care is filling
CurrentValue(prop) ==
    (CHOOSE o \in obs : o.group = CurrentContainer /\ o.prop = prop).val

\* the outcomes of the catalogue fetches that agree with the fetches the
\* last dimension made; fetched[1] is the outcome of fetching the resource
FetchedOuts(r) ==
    {outs \in CatalogueFetches(g, r) :
        care_c12_fetches(g, r, fetched[1], outs) = fetched}

\* has r a value of property p
Has(r, p) == \E t \in g : t[1] = r /\ t[2] = p

\* C24: the catalogue point of C2 is given only when the C1 passed to
\* calculate_care_c2 is above 2; with C1 <= 2 the whole of calculate_care_c
\* makes one fetch, that of the resource by C1, and none of a catalogue.
C24_C2PointGatedOnC1 ==
    (calc = "care" /\ pc = "care_a") =>
        LET r == cur
            c1 == calculate_care_c1(g, r, fetched[1])
            titled == (IF Has(r, "rdfs:label") THEN 1 ELSE 0)
                        + (IF Has(r, "dcterms:description") THEN 1 ELSE 0)
            point == IF c1 > 2 /\ Len(fetched) > 1
                        /\ fetched[Len(fetched)] = "success" THEN 1 ELSE 0
        IN  /\ c1 <= 2 => Len(fetched) = 1
            /\ CurrentValue("careCScore") =
                   c1 + (titled + point) + calculate_care_c3(g, r, titled + point)

\* a resource in a catalogue, with C1 <= 2: the catalogue was not fetched
C24_Witness ==
    /\ calc = "care" /\ pc = "care_a"
    /\ Has(cur, "dcterms:isPartOf")
    /\ Has(cur, "rdfs:label")
    /\ calculate_care_c1(g, cur, fetched[1]) = 2
    /\ Len(fetched) = 1

\* R3 as emitted: careRScore less R1 and R2
EmittedR3 == CurrentValue("careRScore") - calculate_r1(g, cur) - calculate_r2(g, cur)

\* the +3 of R3 is due: C1, C2, C3, A1, A2 and A3 are all above 0
R3Bonus(r, outs) ==
    LET c == care_c123(g, r, fetched[1], outs)
        a == care_a123(g, r)
    IN  \A i \in 1..3 : c[i] > 0 /\ a[i] > 0

PropertiesTier(r) ==
    LET n == Cardinality({p \in richness_properties : Has(r, p)})
    IN  IF n > 2 THEN 3 ELSE n

\* C27: the richness tier within FAIR-F is set by how many of the four
\* richness properties the resource has (0, 1, 2, and 3 for more than 2);
\* several triples of one richness property and none of the others give 1.
C27_TierCountsProperties ==
    JustScoredFair =>
        LastValue("fairFScore") =
            RubricSumF(LastGroup.res) + 1
              - RichnessTier(LastGroup.res) + PropertiesTier(LastGroup.res)

\* A3 as emitted: careAScore less A1 and A2
EmittedA3 ==
    LET a == care_a123(g, cur) IN CurrentValue("careAScore") - a[1] - a[2]

\* C28: A3 is 3 only if a governance framework is associated with the
\* resource (A2.1 > 0) and an Indigenous role code is attributed; it is 0
\* otherwise.
C28_A3NeedsFramework ==
    (calc = "care" /\ pc = "care_r") =>
        /\ EmittedA3 \in {0, 3}
        /\ EmittedA3 = 3 <=>
               /\ calculate_data_governance_framework(g, cur) > 0
               /\ calculate_a32_score(g, cur)

\* A1.2 given only to the resource with licence, rights and access rights
CompleteA12(r) ==
    IF Has(r, "dcterms:license") /\ Has(r, "dcterms:rights")
         /\ Has(r, "dcterms:accessRights")
    THEN 2 ELSE 0

\* C29: calculate_a12_licence_rights gives its 2 points only to a resource
\* with all three of dcterms:license, dcterms:rights and
\* dcterms:accessRights, and 0 otherwise: the careAScore emitted is the one
\* built on that A1.2.
C29_A12NeedsAllThree ==
    (calc = "care" /\ pc = "care_r") =>
        LET r == cur
            a1 == calculate_a11_notices(g, r) + CompleteA12(r)
            a2 == calculate_care_a2(g, r, a1)
        IN  CurrentValue("careAScore") = a1 + a2 + calculate_care_a3(g, r, a2)

\* C30: with the outcome of each fetch fixed, E3 <= E2 <= E1, and a
\* careEScore above 0 comes with a careCScore of 8 (C1 = 3, C2 = 3,
\* C3 = 2) under the same outcomes.
C30_EthicsChainMonotone ==
    JustScoredCare =>
        LET r == LastGroup.res
        IN  \A outs \in FetchedOuts(r) :
                /\ calculate_e3(g, r, fetched[1], outs) <= calculate_e2(g, r, fetched[1], outs)
                /\ calculate_e2(g, r, fetched[1], outs) <= calculate_e1(g, r, fetched[1], outs)
                /\ LastValue("careEScore") > 0 =>
                       /\ care_c123(g, r, fetched[1], outs) = <<3, 3, 2>>
                       /\ calculate_care_c(g, r, fetched[1], outs) = 8

\* careEScore 3 emitted, with careCScore 8
C30_Witness ==
    /\ JustScoredCare
    /\ LastValue("careEScore") = 3
    /\ LastValue("careCScore") = 8

\* C26: in directory mode the triples of the context directory are part of
\* the graph that is scored, for the CARE output and for the FAIR output of
\* a file alike.
C26_ContextScoredForBoth ==
    (pc = "score" /\ calc \in {"care", "fair"}) => ContextTriples \subseteq g

====
